---- MODULE Spec2Model ----
(***************************************************************************)
(* Text analyser (src/src/main.rs): argument parsing, file read, tokenizer, *)
(* filter chain, n-gram generator, frequency counter, ranker and report.    *)
(* A string is a sequence of characters; a character is a one-element name  *)
(* ("a", ",", " ") or a code point name ("U+00C9") for a non-ASCII letter.  *)
(***************************************************************************)
EXTENDS Integers, Sequences, FiniteSets, TLC

VARIABLES pc, args, argi, fs, top_n, regex_filter, ngrams, filter_stopwords,
          min_length, starts_with, contents, tokens, grams, frequencies,
          sorted, output, stderr, chart_called, exit_status

vars == <<pc, args, argi, fs, top_n, regex_filter, ngrams, filter_stopwords,
          min_length, starts_with, contents, tokens, grams, frequencies,
          sorted, output, stderr, chart_called, exit_status>>

options == <<top_n, regex_filter, ngrams, filter_stopwords, min_length, starts_with>>

pipeline == <<contents, tokens, grams, frequencies, sorted, output, chart_called>>

\* ---------------------------------------------------------------- bounds
MaxArgs == 2

MaxText == 2

MaxWords == 4

\* ------------------------------------------------------ Option<T> values
None == [some |-> FALSE]

Some(v) == [some |-> TRUE, val |-> v]

\* ------------------------------------------------------------ characters
Digits == {"0", "1", "2", "3", "4", "5", "6", "7", "8", "9"}

LowerLetters == <<"a", "b", "c", "d", "e", "f", "g", "h", "i", "j", "k", "l", "m",
                 "n", "o", "p", "q", "r", "s", "t", "u", "v", "w", "x", "y", "z">>

UpperLetters == <<"A", "B", "C", "D", "E", "F", "G", "H", "I", "J", "K", "L", "M",
                 "N", "O", "P", "Q", "R", "S", "T", "U", "V", "W", "X", "Y", "Z">>

AsciiLower == { LowerLetters[i] : i \in DOMAIN LowerLetters }

AsciiUpper == { UpperLetters[i] : i \in DOMAIN UpperLetters }

\* U+00C9 is the capital E with acute accent, U+00E9 the small one
NonAsciiLetters == {"U+00C9", "U+00E9"}

is_whitespace(c) == c \in {" ", "\t", "\n"}

is_alphanumeric(c) == c \in Digits \cup AsciiLower \cup AsciiUpper \cup NonAsciiLetters

to_lowercase_char(c) ==
    IF c \in AsciiUpper
    THEN LowerLetters[CHOOSE i \in DOMAIN UpperLetters : UpperLetters[i] = c]
    ELSE IF c = "U+00C9" THEN "U+00E9"
    ELSE c

\* bytes of the character's UTF-8 encoding
len_utf8(c) == IF c \in NonAsciiLetters THEN 2 ELSE 1

\* ---------------------------------------------------------------- strings
to_lowercase(s) == [i \in 1..Len(s) |-> to_lowercase_char(s[i])]

RECURSIVE str_len(_)
\* String::len(): the length in bytes
str_len(s) == IF s = <<>> THEN 0 ELSE len_utf8(Head(s)) + str_len(Tail(s))

RECURSIVE trim_start(_)
trim_start(s) ==
    IF s = <<>> THEN <<>>
    ELSE IF ~is_alphanumeric(Head(s)) THEN trim_start(Tail(s))
    ELSE s

RECURSIVE trim_end(_)
trim_end(s) ==
    IF s = <<>> THEN <<>>
    ELSE IF ~is_alphanumeric(s[Len(s)]) THEN trim_end(SubSeq(s, 1, Len(s) - 1))
    ELSE s

trim_matches(s) == trim_end(trim_start(s))

RECURSIVE split_whitespace_from(_, _)
\* the maximal whitespace-free pieces of text, cur being the piece in progress
split_whitespace_from(text, cur) ==
    IF text = <<>> THEN (IF cur = <<>> THEN <<>> ELSE <<cur>>)
    ELSE IF is_whitespace(Head(text))
         THEN (IF cur = <<>> THEN <<>> ELSE <<cur>>) \o split_whitespace_from(Tail(text), <<>>)
         ELSE split_whitespace_from(Tail(text), Append(cur, Head(text)))

split_whitespace(text) == split_whitespace_from(text, <<>>)

starts_with_char(w, c) == Len(w) > 0 /\ w[1] = c

RECURSIVE join(_)
\* [String]::join(" ")
join(ws) ==
    IF ws = <<>> THEN <<>>
    ELSE IF Len(ws) = 1 THEN ws[1]
    ELSE ws[1] \o <<" ">> \o join(Tail(ws))

\* ------------------------------------------------------------- stopwords
stopwords ==
    { <<"a">>, <<"a","n">>, <<"a","n","d">>, <<"a","r","e">>, <<"a","s">>, <<"a","t">>, <<"b","e">>, <<"b","u","t">>, <<"b","y">>,
      <<"f","o","r">>, <<"i","f">>, <<"i","n">>, <<"i","n","t","o">>, <<"i","s">>, <<"i","t">>, <<"n","o">>, <<"n","o","t">>,
      <<"o","f">>, <<"o","n">>, <<"o","r">>, <<"s","u","c","h">>, <<"t","h","a","t">>, <<"t","h","e">>, <<"t","h","e","i","r">>, <<"t","h","e","n">>,
      <<"t","h","e","r","e">>, <<"t","h","e","s","e">>, <<"t","h","e","y">>, <<"t","h","i","s">>, <<"t","o">>, <<"w","a","s">>, <<"w","i","l","l">>, <<"w","i","t","h">> }

\* -------------------------------------------------------------- tokenizer
tokenize(text) ==
    LET pieces == split_whitespace(text)
        mapped == [i \in 1..Len(pieces) |-> to_lowercase(trim_matches(pieces[i]))]
    IN  SelectSeq(mapped, LAMBDA w : w # <<>>)

\* ------------------------------------------------------ n-gram generator
saturating_sub(a, b) == IF a >= b THEN a - b ELSE 0

\* tokens[i..i + n] with 0-based i: the slice, or a panic when it leaves the vector
slice_in_bounds(ts, i, n) == i + n <= Len(ts)

\* generate_ngrams with the range one window short: 0..len.saturating_sub(n)
generate_ngrams_short_range(ts, n, overflow_checks) ==
    IF n = 1 THEN [panic |-> FALSE, val |-> ts]
    ELSE IF n = 0 THEN [panic |-> overflow_checks, val |-> <<>>]
    ELSE [panic |-> FALSE,
          val |-> [k \in 1..saturating_sub(Len(ts), n) |-> join(SubSeq(ts, k, k + n - 1))]]

\* generate_ngrams with len - (n - 1) in place of saturating_sub: the subtraction
\* traps, or wraps to a range whose first slice leaves the vector
generate_ngrams_plain_sub(ts, n, overflow_checks) ==
    IF n = 1 THEN [panic |-> FALSE, val |-> ts]
    ELSE IF n = 0 THEN [panic |-> overflow_checks, val |-> <<>>]
    ELSE IF Len(ts) < n - 1 THEN [panic |-> TRUE, val |-> <<>>]
    ELSE [panic |-> FALSE,
          val |-> [k \in 1..(Len(ts) - (n - 1)) |-> join(SubSeq(ts, k, k + n - 1))]]

\* overflow_checks: whether the build traps arithmetic overflow (debug) or wraps
\* (release). With n = 0 the subtraction n - 1 overflows: a trap, or usize::MAX,
\* which saturating_sub turns into an empty range.
generate_ngrams(ts, n, overflow_checks) ==
    IF n = 1 THEN [panic |-> FALSE, val |-> ts]
    ELSE IF n = 0
         THEN (IF overflow_checks THEN [panic |-> TRUE, val |-> <<>>]
                                  ELSE [panic |-> FALSE, val |-> <<>>])
    ELSE LET count == saturating_sub(Len(ts), n - 1)
         IN  IF \E i \in 0..(count - 1) : ~slice_in_bounds(ts, i, n)
             THEN [panic |-> TRUE, val |-> <<>>]
             ELSE [panic |-> FALSE,
                   val |-> [k \in 1..count |-> join(SubSeq(ts, k, k + n - 1))]]

\* ----------------------------------------------------- frequency counter
\* count_entry with or_insert(1): a first occurrence counts twice
count_entry_from_one(acc, w) ==
    IF w \in DOMAIN acc THEN [acc EXCEPT ![w] = @ + 1]
    ELSE (w :> (1 + 1)) @@ acc

\* *acc.entry(w).or_insert(0) += 1
count_entry(acc, w) ==
    IF w \in DOMAIN acc THEN [acc EXCEPT ![w] = @ + 1]
    ELSE (w :> (0 + 1)) @@ acc

RECURSIVE count_fold(_, _)
count_fold(acc, words) ==
    IF words = <<>> THEN acc
    ELSE count_fold(count_entry(acc, Head(words)), Tail(words))

count_frequencies(words) == count_fold(<<>>, words)

\* ----------------------------------------------------------------- ranker
\* frequencies.into_iter().collect(): the entries in some iteration order
hash_iter_orders(freq) ==
    LET keys == DOMAIN freq
        n    == Cardinality(keys)
    IN  { [i \in 1..n |-> <<f[i], freq[f[i]]>>] :
            f \in { g \in [1..n -> keys] : \A i, j \in 1..n : g[i] = g[j] => i = j } }

\* the comparator with its operands the other way round: a.1.cmp(&b.1)
sorts_before_ascending(a, b) == a[2] < b[2]

\* the comparator |a, b| b.1.cmp(&a.1): a sorts before b when a's count is greater
sorts_before(a, b) == a[2] > b[2]

RECURSIVE insert_stable_dedup(_, _)
\* an insertion that keeps one entry for each count
insert_stable_dedup(s, x) ==
    IF s = <<>> THEN <<x>>
    ELSE IF x[2] = Head(s)[2] THEN s
    ELSE IF x[2] > Head(s)[2] THEN <<x>> \o s
    ELSE <<Head(s)>> \o insert_stable_dedup(Tail(s), x)

RECURSIVE insert_stable(_, _)
\* x goes after every element that does not sort after it
insert_stable(s, x) ==
    IF s = <<>> THEN <<x>>
    ELSE IF sorts_before(x, Head(s)) THEN <<x>> \o s
    ELSE <<Head(s)>> \o insert_stable(Tail(s), x)

RECURSIVE sort_from(_, _)
sort_from(done, rest) ==
    IF rest = <<>> THEN done
    ELSE sort_from(insert_stable(done, Head(rest)), Tail(rest))

\* Vec::sort_by, a stable sort
sort_by(v) == sort_from(<<>>, v)

\* ---------------------------------------------------------------- report
take(s, n) == SubSeq(s, 1, IF n < Len(s) THEN n ELSE Len(s))

\* ((count / max_count) * max_bar).round(), halves away from zero
bar_len(count, max_count, max_bar) == (2 * count * max_bar + max_count) \div (2 * max_count)

display_bar_chart(items, max_bar) ==
    IF items = <<>> THEN <<>>
    ELSE [i \in 1..Len(items) |->
            [kind |-> "bar", word |-> items[i][1], count |-> items[i][2],
             bar |-> bar_len(items[i][2], items[1][2], max_bar)]]

\* --------------------------------------------------------- flag parsing
\* str::parse::<usize>(): an optional "+", then one or more decimal digits
digit_value(c) ==
    CASE c = "0" -> 0 [] c = "1" -> 1 [] c = "2" -> 2 [] c = "3" -> 3 [] c = "4" -> 4
      [] c = "5" -> 5 [] c = "6" -> 6 [] c = "7" -> 7 [] c = "8" -> 8 [] OTHER -> 9

RECURSIVE digits_value(_, _)
digits_value(acc, s) ==
    IF s = <<>> THEN acc ELSE digits_value(acc * 10 + digit_value(Head(s)), Tail(s))

parse_usize(s) ==
    LET body == IF s # <<>> /\ Head(s) = "+" THEN Tail(s) ELSE s
    IN  IF body # <<>> /\ \A i \in 1..Len(body) : body[i] \in Digits
        THEN Some(digits_value(0, body))
        ELSE None

\* unwrap_or_default() in place of unwrap_or(default)
unwrap_or_zero(opt, default) == IF opt.some THEN opt.val ELSE 0

unwrap_or(opt, default) == IF opt.some THEN opt.val ELSE default

\* Regex::new(pattern).ok() for patterns of literal characters and "(": a pattern
\* with an unclosed group does not compile
regex_new(pattern) ==
    IF \E i \in 1..Len(pattern) : pattern[i] = "(" THEN None ELSE Some(pattern)

\* Regex::is_match of a literal pattern: it occurs somewhere in w
is_match(re, w) ==
    \E i \in 0..(Len(w) - Len(re)) : SubSeq(w, i + 1, i + Len(re)) = re

\* arg.strip_prefix(p): an argument is the text flag ++ rest
strip_prefix(arg, p) == IF arg.flag = p THEN Some(arg.rest) ELSE None

chars_next(s) == IF s = <<>> THEN None ELSE Some(s[1])

\* ----------------------------------------------------------- filter chain
keep_stopword(w, sw) == w \notin sw

keep_regex(w, re) == is_match(re, w)

keep_min_length(w, n) == str_len(w) > n

keep_starts_with(w, c) == starts_with_char(w, c)

\* if filter_stopwords { tokens = tokens.into_iter().filter(..).collect() }
stage_stopwords(ts, enabled) ==
    IF enabled THEN SelectSeq(ts, LAMBDA w : keep_stopword(w, stopwords)) ELSE ts

\* if let Some(re) = &regex_filter { .. }
stage_regex(ts, re) ==
    IF re.some THEN SelectSeq(ts, LAMBDA w : keep_regex(w, re.val)) ELSE ts

\* if let Some(n) = min_length { .. }
stage_min_length(ts, n) ==
    IF n.some THEN SelectSeq(ts, LAMBDA w : keep_min_length(w, n.val)) ELSE ts

\* if let Some(c) = starts_with { .. }
stage_starts_with(ts, c) ==
    IF c.some THEN SelectSeq(ts, LAMBDA w : keep_starts_with(w, c.val)) ELSE ts

\* ------------------------------------------------------------------ inputs
ProgName == [flag |-> "", rest |-> <<"t", "a">>]

FileName == [flag |-> "", rest |-> <<"f">>]

NgramFlagArgs ==
    { [flag |-> "--ngrams=", rest |-> r] : r \in {<<"0">>, <<"2">>, <<"x">>} }

AllFlagArgs ==
    { [flag |-> "--top=", rest |-> r] : r \in {<<"1">>, <<"x">>} }
    \cup NgramFlagArgs
    \cup { [flag |-> "--min-length=", rest |-> r] : r \in {<<"1">>, <<"x">>} }
    \cup { [flag |-> "--match-regex=", rest |-> r] : r \in {<<"a">>, <<"(">>} }
    \cup { [flag |-> "--starts-with=", rest |-> <<"a">>],
           [flag |-> "--filter-stopwords", rest |-> <<>>],
           [flag |-> "--verbose", rest |-> <<>>] }

WideNgramFlagArgs == NgramFlagArgs \cup { [flag |-> "--ngrams=", rest |-> <<"3">>] }

TextChars == {" ", ",", "a", "U+00C9"}

Words == { <<"a">>, <<"B">>, <<"U+00C9">> }

SeqsUpTo(S, n) == UNION { [1..k -> S] : k \in 0..n }

\* the command lines: the program name alone, or with a file path and flags
Argvs(flagArgs, n) ==
    { <<ProgName>> } \cup { <<ProgName, FileName>> \o fl : fl \in SeqsUpTo(flagArgs, n) }

\* the file at the path: unreadable, or readable with one of the texts
Files(texts) == { None } \cup { Some(t) : t \in texts }

CharTexts == SeqsUpTo(TextChars, MaxText)

WordTexts == { join(ws) : ws \in SeqsUpTo(Words, MaxWords) }

\* -------------------------------------------------------------------- main
InitOn(argvs, files) ==
    /\ pc = "start"
    /\ args \in argvs
    /\ argi = 1
    /\ fs \in files
    /\ top_n = 10
    /\ regex_filter = None
    /\ ngrams = 1
    /\ filter_stopwords = FALSE
    /\ min_length = None
    /\ starts_with = None
    /\ contents = None
    /\ tokens = <<>>
    /\ grams = <<>>
    /\ frequencies = <<>>
    /\ sorted = <<>>
    /\ output = <<>>
    /\ stderr = <<>>
    /\ chart_called = FALSE
    /\ exit_status = None

Init == InitOn(Argvs(AllFlagArgs, MaxArgs), Files(CharTexts))

InitWords == InitOn(Argvs(WideNgramFlagArgs, 1), Files(WordTexts))

\* args.len() < 2: usage on stderr and process::exit(1)
CheckArgs ==
    /\ pc = "start"
    /\ IF Len(args) < 2
       THEN /\ stderr' = Append(stderr, "Usage")
            /\ pc' = "exit"
            /\ exit_status' = Some(1)
            /\ argi' = argi
       ELSE /\ pc' = "parse"
            /\ argi' = 3
            /\ UNCHANGED <<stderr, exit_status>>
    /\ UNCHANGED <<args, fs, options, pipeline>>

\* one step of args.iter().skip(2).for_each(..)
ParseArg ==
    /\ pc = "parse"
    /\ argi <= Len(args)
    /\ LET arg == args[argi] IN
       IF strip_prefix(arg, "--top=").some
       THEN /\ top_n' = unwrap_or(parse_usize(strip_prefix(arg, "--top=").val), 10)
            /\ UNCHANGED <<regex_filter, ngrams, filter_stopwords, min_length, starts_with>>
       ELSE IF strip_prefix(arg, "--match-regex=").some
       THEN /\ regex_filter' = regex_new(strip_prefix(arg, "--match-regex=").val)
            /\ UNCHANGED <<top_n, ngrams, filter_stopwords, min_length, starts_with>>
       ELSE IF strip_prefix(arg, "--ngrams=").some
       THEN /\ ngrams' = unwrap_or(parse_usize(strip_prefix(arg, "--ngrams=").val), 1)
            /\ UNCHANGED <<top_n, regex_filter, filter_stopwords, min_length, starts_with>>
       ELSE IF arg.flag = "--filter-stopwords" /\ arg.rest = <<>>
       THEN /\ filter_stopwords' = TRUE
            /\ UNCHANGED <<top_n, regex_filter, ngrams, min_length, starts_with>>
       ELSE IF strip_prefix(arg, "--min-length=").some
       THEN /\ min_length' = parse_usize(strip_prefix(arg, "--min-length=").val)
            /\ UNCHANGED <<top_n, regex_filter, ngrams, filter_stopwords, starts_with>>
       ELSE IF strip_prefix(arg, "--starts-with=").some
       THEN /\ starts_with' = chars_next(strip_prefix(arg, "--starts-with=").val)
            /\ UNCHANGED <<top_n, regex_filter, ngrams, filter_stopwords, min_length>>
       ELSE UNCHANGED options
    /\ argi' = argi + 1
    /\ UNCHANGED <<pc, args, fs, pipeline, stderr, exit_status>>

\* read_to_string(..).unwrap_or_default(): an unreadable file reads as empty
ReadFileOrEmpty ==
    /\ pc = "parse"
    /\ argi > Len(args)
    /\ contents' = IF fs.some THEN Some(fs.val) ELSE Some(<<>>)
    /\ pc' = "tokenize"
    /\ UNCHANGED <<args, argi, fs, options, tokens, grams, frequencies, sorted,
                   output, stderr, chart_called, exit_status>>

\* fs::read_to_string(filename).expect(..): the contents, or a panic
ReadFile ==
    /\ pc = "parse"
    /\ argi > Len(args)
    /\ IF fs.some
       THEN /\ contents' = Some(fs.val)
            /\ pc' = "tokenize"
            /\ UNCHANGED <<stderr, exit_status>>
       ELSE /\ stderr' = Append(stderr, "Could not read the file")
            /\ pc' = "panic"
            /\ exit_status' = Some(101)
            /\ UNCHANGED contents
    /\ UNCHANGED <<args, argi, fs, options, tokens, grams, frequencies, sorted,
                   output, chart_called>>

Tokenize ==
    /\ pc = "tokenize"
    /\ tokens' = tokenize(contents.val)
    /\ pc' = "filter_stopwords"
    /\ UNCHANGED <<args, argi, fs, options, contents, grams, frequencies, sorted,
                   output, stderr, chart_called, exit_status>>

FilterStopwords ==
    /\ pc = "filter_stopwords"
    /\ tokens' = stage_stopwords(tokens, filter_stopwords)
    /\ pc' = "filter_regex"
    /\ UNCHANGED <<args, argi, fs, options, contents, grams, frequencies, sorted,
                   output, stderr, chart_called, exit_status>>

FilterRegex ==
    /\ pc = "filter_regex"
    /\ tokens' = stage_regex(tokens, regex_filter)
    /\ pc' = "filter_min_length"
    /\ UNCHANGED <<args, argi, fs, options, contents, grams, frequencies, sorted,
                   output, stderr, chart_called, exit_status>>

FilterMinLength ==
    /\ pc = "filter_min_length"
    /\ tokens' = stage_min_length(tokens, min_length)
    /\ pc' = "filter_starts_with"
    /\ UNCHANGED <<args, argi, fs, options, contents, grams, frequencies, sorted,
                   output, stderr, chart_called, exit_status>>

FilterStartsWith ==
    /\ pc = "filter_starts_with"
    /\ tokens' = stage_starts_with(tokens, starts_with)
    /\ pc' = "ngrams"
    /\ UNCHANGED <<args, argi, fs, options, contents, grams, frequencies, sorted,
                   output, stderr, chart_called, exit_status>>

\* let grams = generate_ngrams(&tokens, ngrams), in either build
GenerateNgrams ==
    /\ pc = "ngrams"
    /\ \E overflow_checks \in BOOLEAN :
         LET r == generate_ngrams(tokens, ngrams, overflow_checks) IN
         IF r.panic
         THEN /\ pc' = "panic"
              /\ exit_status' = Some(101)
              /\ stderr' = Append(stderr, "panicked")
              /\ UNCHANGED grams
         ELSE /\ grams' = r.val
              /\ pc' = "count"
              /\ UNCHANGED <<stderr, exit_status>>
    /\ UNCHANGED <<args, argi, fs, options, contents, tokens, frequencies, sorted,
                   output, chart_called>>

CountFrequencies ==
    /\ pc = "count"
    /\ frequencies' = count_frequencies(grams)
    /\ pc' = "sort"
    /\ UNCHANGED <<args, argi, fs, options, contents, tokens, grams, sorted,
                   output, stderr, chart_called, exit_status>>

\* collect the table in its iteration order, then sort by count, descending
Sort ==
    /\ pc = "sort"
    /\ \E order \in hash_iter_orders(frequencies) : sorted' = sort_by(order)
    /\ pc' = "report"
    /\ UNCHANGED <<args, argi, fs, options, contents, tokens, grams, frequencies,
                   output, stderr, chart_called, exit_status>>

report_lines ==
    << [kind |-> "title"],
       [kind |-> "total", n |-> Len(grams)],
       [kind |-> "unique", n |-> Len(sorted)] >>
    \o (IF sorted # <<>>
        THEN << [kind |-> "most_common", word |-> sorted[1][1], count |-> sorted[1][2]] >>
        ELSE <<>>)
    \o (IF sorted # <<>>
        THEN << [kind |-> "top_header", n |-> top_n] >>
             \o display_bar_chart(take(sorted, top_n), 40)
        ELSE << [kind |-> "no_match"] >>)

Report ==
    /\ pc = "report"
    /\ output' = output \o report_lines
    /\ chart_called' = (sorted # <<>>)
    /\ pc' = "done"
    /\ exit_status' = Some(0)
    /\ UNCHANGED <<args, argi, fs, options, contents, tokens, grams, frequencies,
                   sorted, stderr>>

Next ==
    \/ CheckArgs
    \/ ParseArg
    \/ ReadFile
    \/ Tokenize
    \/ FilterStopwords
    \/ FilterRegex
    \/ FilterMinLength
    \/ FilterStartsWith
    \/ GenerateNgrams
    \/ CountFrequencies
    \/ Sort
    \/ Report

Spec == Init /\ [][Next]_vars

SpecWords == InitWords /\ [][Next]_vars

\* ================================================================ claims
at_read == pc = "parse" /\ argi > Len(args)

after_filters == pc \in {"ngrams", "count", "sort", "report", "done"}

after_ngrams == pc \in {"count", "sort", "report", "done"}

after_count == pc \in {"sort", "report", "done"}

after_sort == pc \in {"report", "done"}

\* a panic raised after the file was read comes from generate_ngrams
ngram_panic == pc = "panic" /\ contents.some

RECURSIVE window_offset(_, _, _)
\* where the j-th token (from 0) of the window starting at token i begins in its gram
window_offset(ts, i, j) ==
    IF j = 0 THEN 0 ELSE window_offset(ts, i, j - 1) + Len(ts[i + j - 1]) + 1

IsSpaceJoinedWindow(g, ts, i, n) ==
    /\ i + n - 1 <= Len(ts)
    /\ Len(g) = window_offset(ts, i, n) - 1
    /\ \A j \in 0..(n - 1) :
         LET off == window_offset(ts, i, j)
             t   == ts[i + j]
         IN  /\ SubSeq(g, off + 1, off + Len(t)) = t
             /\ j < n - 1 => g[off + Len(t) + 1] = " "

\* C1: for every token sequence T and width n > 1, generate_ngrams returns exactly
\* max(0, len(T) - n + 1) grams, the i-th being tokens i .. i+n-1 joined by single
\* spaces in order (so none when n > len(T)), and no slice leaves T (no panic).
C1_NgramWindows ==
    ngrams > 1 =>
      /\ ~ngram_panic
      /\ after_ngrams =>
           /\ Len(grams) = (IF Len(tokens) - ngrams + 1 > 0 THEN Len(tokens) - ngrams + 1 ELSE 0)
           /\ \A i \in 1..Len(grams) : IsSpaceJoinedWindow(grams[i], tokens, i, ngrams)

C1_Witness ==
    /\ pc = "count"
    /\ ngrams = 2
    /\ Len(tokens) = 3
    /\ Len(grams) = 2
    /\ grams[1] # grams[2]

Occurrences(g, k) == Cardinality({ i \in 1..Len(g) : g[i] = k })

RECURSIVE SumCounts(_, _)
SumCounts(f, keys) ==
    IF keys = {} THEN 0
    ELSE LET k == CHOOSE x \in keys : TRUE IN f[k] + SumCounts(f, keys \ {k})

\* C2: the table of count_frequencies(G) has exactly the distinct values of G as
\* keys, each key's count is the number of positions of G holding it, and the
\* counts sum to len(G).
C2_CountsAreOccurrences ==
    after_count =>
      /\ DOMAIN frequencies = { grams[i] : i \in 1..Len(grams) }
      /\ \A k \in DOMAIN frequencies : frequencies[k] = Occurrences(grams, k)
      /\ SumCounts(frequencies, DOMAIN frequencies) = Len(grams)

C2_Witness ==
    /\ pc = "sort"
    /\ Cardinality(DOMAIN frequencies) >= 2
    /\ \E k \in DOMAIN frequencies : frequencies[k] >= 2

\* C3: the ranked list built in main is non-increasing in count across consecutive
\* entries, and every entry has count >= 1.
C3_RankedNonIncreasing ==
    after_sort =>
      /\ \A i \in 1..(Len(sorted) - 1) : sorted[i][2] >= sorted[i + 1][2]
      /\ \A i \in 1..Len(sorted) : sorted[i][2] >= 1

C3_Witness ==
    /\ pc = "report"
    /\ Len(sorted) >= 2
    /\ sorted[1][2] > sorted[Len(sorted)][2]

\* the length of a token in characters
char_count(w) == Len(w)

\* the tokens that reach the minimum-length stage
min_length_input ==
    stage_regex(stage_stopwords(tokenize(contents.val), filter_stopwords), regex_filter)

\* C4: the minimum-length filter with threshold k keeps a token iff its length in
\* characters is strictly greater than k, non-ASCII alphanumeric tokens included.
C4_MinLengthCountsChars ==
    (pc = "filter_starts_with" /\ min_length.some) =>
      tokens = SelectSeq(min_length_input, LAMBDA w : char_count(w) > min_length.val)

\* C5: a width of 0 is rejected before the n-gram generator is invoked:
\* generate_ngrams is never about to be called with n = 0.
C5_ZeroWidthRejected == pc = "ngrams" => ngrams # 0

\* C6: when the file cannot be read the run ends in a panic with a non-zero exit
\* status, no pipeline stage runs and no report line is written; report output
\* occurs only after the read succeeded.
C6_NoReportWithoutRead ==
    /\ output # <<>> => contents.some /\ fs.some
    /\ ~fs.some =>
         /\ pc \in {"start", "parse", "exit", "panic"}
         /\ pipeline = <<None, <<>>, <<>>, <<>>, <<>>, <<>>, FALSE>>
         /\ pc = "panic" => exit_status.some /\ exit_status.val # 0

C6_Witness ==
    /\ ~fs.some
    /\ pc = "panic"
    /\ exit_status = Some(101)
    /\ output = <<>>
    /\ Len(args) > 2

\* C7: when the filters leave no token (or there was none) and n >= 1, the run
\* does not panic, can always take its next step, and ends with exit status 0
\* having reported total 0, unique 0, no most-common line, the no-match line,
\* and without calling the bar-chart renderer.
C7_EmptyResultReport ==
    (contents.some /\ (after_filters \/ pc = "panic") /\ tokens = <<>> /\ ngrams >= 1) =>
      /\ pc # "panic"
      /\ pc # "done" => ENABLED Next
      /\ pc = "done" =>
           /\ exit_status = Some(0)
           /\ output = << [kind |-> "title"], [kind |-> "total", n |-> 0],
                          [kind |-> "unique", n |-> 0], [kind |-> "no_match"] >>
           /\ ~chart_called

C7_Witness ==
    /\ pc = "done"
    /\ tokens = <<>>
    /\ tokenize(contents.val) # <<>>
    /\ ngrams = 2

\* a decimal numeral, with an optional leading plus sign
IsNonNegativeInteger(s) ==
    LET body == IF s # <<>> /\ Head(s) = "+" THEN Tail(s) ELSE s
    IN  body # <<>> /\ \A i \in 1..Len(body) : body[i] \in Digits

KnownPrefixes ==
    {"--top=", "--match-regex=", "--ngrams=", "--min-length=", "--starts-with="}

IsKnownFlag(arg) ==
    arg.flag \in KnownPrefixes \/ (arg.flag = "--filter-stopwords" /\ arg.rest = <<>>)

FlagIndices == 3..Len(args)

Malformed(i, flag) == args[i].flag = flag /\ ~IsNonNegativeInteger(args[i].rest)

IsLast(i, flag) == \A j \in FlagIndices : j > i => args[j].flag # flag

\* C8 as stated: parsing never ends the run, and when the pipeline starts every
\* malformed --top= / --ngrams= argument has left its option at the default and
\* every malformed --min-length= has left the filter unconfigured.
C8_MalformedAlwaysDefault ==
    /\ pc = "parse" => ~exit_status.some
    /\ at_read =>
         \A i \in FlagIndices :
           /\ Malformed(i, "--top=") => top_n = 10
           /\ Malformed(i, "--ngrams=") => ngrams = 1
           /\ Malformed(i, "--min-length=") => min_length = None

C8_StateAtRead ==
    /\ pc = "parse" => ~exit_status.some
    /\ at_read =>
         \A i \in FlagIndices :
           /\ (Malformed(i, "--top=") /\ IsLast(i, "--top=")) => top_n = 10
           /\ (Malformed(i, "--ngrams=") /\ IsLast(i, "--ngrams=")) => ngrams = 1
           /\ (Malformed(i, "--min-length=") /\ IsLast(i, "--min-length=")) => min_length = None

C8_ParseStep ==
    (pc = "parse" /\ argi <= Len(args)) =>
      /\ pc' = "parse"
      /\ exit_status' = exit_status
      /\ ~IsKnownFlag(args[argi]) => options' = options

\* C8, amended: parsing never ends the run; a malformed --top= / --ngrams= value
\* that no later argument for the same option follows leaves the option at its
\* default (10, 1) when the pipeline starts, a malformed --min-length= that no
\* later --min-length= follows leaves the filter unconfigured, and an argument
\* matching no known flag changes no option.
C8_LastMalformedDefault == []C8_StateAtRead /\ [][C8_ParseStep]_vars

C8_Witness ==
    /\ at_read
    /\ Len(args) = 4
    /\ args[3] = [flag |-> "--top=", rest |-> <<"1">>]
    /\ args[4] = [flag |-> "--top=", rest |-> <<"x">>]
    /\ top_n = 10

TableEntries == { <<k, frequencies[k]>> : k \in DOMAIN frequencies }

\* C9: the ranked list is a permutation of the frequency table's entries: every
\* (gram, count) pair of the table exactly once and no other, so its length is
\* the number of distinct grams, which is what 'Unique items' reports.
C9_RankedIsPermutation ==
    after_sort =>
      /\ Len(sorted) = Cardinality(DOMAIN frequencies)
      /\ { sorted[i] : i \in 1..Len(sorted) } = TableEntries
      /\ pc = "done" => output[3] = [kind |-> "unique", n |-> Cardinality(DOMAIN frequencies)]

C9_Witness ==
    /\ pc = "done"
    /\ Len(sorted) >= 3
    /\ \E i \in 1..(Len(sorted) - 1) : sorted[i][2] = sorted[i + 1][2]

\* the predicate of every enabled filter, the length being counted in characters
PassesEnabledFilters(w) ==
    /\ filter_stopwords => w \notin stopwords
    /\ regex_filter.some => is_match(regex_filter.val, w)
    /\ min_length.some => char_count(w) > min_length.val
    /\ starts_with.some => (w # <<>> /\ w[1] = starts_with.val)

\* C10: the filter chain's output is exactly the order-preserving subsequence of
\* the tokenizer's output whose tokens satisfy the predicate of every enabled
\* filter; a filter that is not enabled removes nothing.
C10_ChainIsConjunction ==
    pc = "ngrams" => tokens = SelectSeq(tokenize(contents.val), PassesEnabledFilters)

====
